---- MODULE Spec2Model ----
(***************************************************************************)
(* Read-only content API of src/app.py: five MongoDB collections accessed  *)
(* through mongoengine and six Flask routes that query them.               *)
(*                                                                         *)
(* The store is the shared state; it is written only by the external       *)
(* ingestion pipeline, which is modelled by the flag-flipping actions.     *)
(* A handler is modelled query by query: every store round-trip of a       *)
(* multi-query handler is one step, so that pipeline writes can fall       *)
(* between two queries of the same request.                                *)
(***************************************************************************)
EXTENDS Integers, Sequences, FiniteSets

VARIABLES
    syllabus,   \* collection upsc_syllabus : id -> document
    subtopics,  \* collection subtopics     : id -> document
    units,      \* collection micro_units   : id -> document
    notes,      \* collection micro_unit_notes : set of documents
    mcqs,       \* collection micro_unit_mcqs  : set of documents
    req,        \* the handler in progress: its position and local variables
    resp        \* the last HTTP response produced

vars == <<syllabus, subtopics, units, notes, mcqs, req, resp>>
store == <<syllabus, subtopics, units, notes, mcqs>>

---------------------------------------------------------------------------
(* Bounds of the model *)

NumSyllabus == 3
NumUnits == 2
MaxOrder == 1
MaxMcqs == 2

SylIds == 1 .. NumSyllabus
SubTopicIds == 1 .. 2
UnitIds == 1 .. NumUnits
Orders == 0 .. MaxOrder
Subjects == {"History", "Polity"}
Names == {"Ancient India", "Medieval India"}

---------------------------------------------------------------------------
(* Documents *)

\* UPSCSyllabus: subject, paper, the terminal stage flag v4 (default False).
\* stage and exam are the same for every document of the model.
SyllabusDoc == [subject : Subjects, paper : SylIds, v4 : BOOLEAN]

\* SubTopic: name, subject, v4_finalized (default False).
SubTopicDoc == [name : Names, subject : Subjects, v4_finalized : BOOLEAN]

\* The unique index on (name, subject) of the subtopics collection.
SubTopicUnique(st) ==
    \A a, b \in DOMAIN st :
        (st[a].name = st[b].name /\ st[a].subject = st[b].subject) => a = b

\* MicroUnit: name, reference to one SubTopic, order, v6_finalized.
UnitNames == <<"Guptas", "Mauryas", "Cholas", "Pallavas">>
MicroUnitDoc ==
    [name : {UnitNames[i] : i \in 1 .. Len(UnitNames)}, subtopic : SubTopicIds,
     order : Orders, v6_finalized : BOOLEAN]

\* MicroUnitNote: unique reference to a MicroUnit, content.
MicroUnitNoteDoc == [micro_unit : UnitIds, content : {"note text"}]

\* MicroUnitMCQ: unique reference to a MicroUnit, mcq_count, and the list of
\* embedded questions (a question is modelled by its question_number).
\* mcq_count is an independent IntField: the schema does not tie it to the
\* length of mcqs.
McqLists == {[k \in 1 .. n |-> k] : n \in 1 .. MaxMcqs}
MicroUnitMCQDoc == [micro_unit : UnitIds, mcq_count : 1 .. MaxMcqs, mcqs : McqLists]

\* unique=True on a reference field: at most one document per MicroUnit.
RefUnique(docs) ==
    \A a, b \in docs : a.micro_unit = b.micro_unit => a = b

---------------------------------------------------------------------------
(* Identifiers at the HTTP boundary *)

\* str(ObjectId) of the micro-units of the model, and of one id that is well
\* formed but names no document.
HexIds == <<"65a000000000000000000001", "65a000000000000000000002",
            "65a000000000000000000003", "65a000000000000000000004",
            "65a000000000000000000005">>
IdStr(u) == HexIds[u]
MalformedId == "not-an-object-id"
IdParams == {HexIds[i] : i \in 1 .. NumUnits + 1} \cup {MalformedId}

\* bson.ObjectId(s): the id for a 24-character hex string, InvalidId otherwise.
IsObjectId(s) == \E i \in 1 .. Len(HexIds) : HexIds[i] = s
ObjectId(s) == CHOOSE i \in 1 .. Len(HexIds) : HexIds[i] = s

---------------------------------------------------------------------------
(* Helpers *)

RECURSIVE Ascending(_)
\* The elements of a set of integers in ascending order: the order in which
\* an unsorted query returns documents (insertion order of their ids).
Ascending(S) ==
    IF S = {} THEN <<>>
    ELSE LET m == CHOOSE x \in S : \A y \in S : x <= y
         IN  <<m>> \o Ascending(S \ {m})

Range(s) == {s[i] : i \in 1 .. Len(s)}

NoDuplicates(s) == \A i, j \in 1 .. Len(s) : s[i] = s[j] => i = j

RECURSIVE DistinctValues(_)
\* distinct(field) over the values of the matching documents.
DistinctValues(s) ==
    IF s = <<>> THEN <<>>
    ELSE LET front == DistinctValues(SubSeq(s, 1, Len(s) - 1))
             last == s[Len(s)]
         IN  IF last \in Range(front) THEN front ELSE Append(front, last)

---------------------------------------------------------------------------
(* Handler frame and responses *)

Idle ==
    [pc |-> "idle", subject |-> "", name |-> "", id |-> "",
     subs |-> <<>>, units |-> <<>>, noted |-> {}, rt |-> 0]

NoResp ==
    [op |-> "none", status |-> "none", subject |-> "", name |-> "", id |-> "",
     body |-> <<>>, rt |-> 0]

\* Flask with no errorhandler registered: an exception that is not an
\* HTTPException leaving a view function becomes 500 Internal Server Error.
Unhandled(exception) == "InternalServerError"

Ok(op, r, body) ==
    [op |-> op, status |-> "OK", subject |-> r.subject, name |-> r.name,
     id |-> r.id, body |-> body, rt |-> r.rt]

Failed(op, r, exception) ==
    [op |-> op, status |-> Unhandled(exception), subject |-> r.subject,
     name |-> r.name, id |-> r.id, body |-> <<exception>>, rt |-> r.rt]

---------------------------------------------------------------------------
(* GET /subjects and GET /syllabus/<subject> *)

AllSyllabus == SylIds

\* UPSCSyllabus.objects(v4=True)
PublishedSyllabus == {i \in SylIds : syllabus[i].v4}

ListSubjectsResult ==
    LET docs == Ascending(PublishedSyllabus)
    IN  DistinctValues([k \in 1 .. Len(docs) |-> syllabus[docs[k]].subject])

list_subjects ==
    /\ req.pc = "idle"
    /\ resp' = Ok("subjects", [Idle EXCEPT !.rt = 1], ListSubjectsResult)
    /\ UNCHANGED <<store, req>>

SyllabusRow(i) ==
    [stage |-> "Prelims", paper |-> syllabus[i].paper,
     exam |-> "UPSC Civil Services Examination"]

syllabus_by_subject(subject) ==
    /\ req.pc = "idle"
    /\ LET docs == Ascending({i \in PublishedSyllabus : syllabus[i].subject = subject})
       IN  resp' = Ok("syllabus", [Idle EXCEPT !.subject = subject, !.rt = 1],
                      [k \in 1 .. Len(docs) |-> SyllabusRow(docs[k])])
    /\ UNCHANGED <<store, req>>

---------------------------------------------------------------------------
(* Python values that meet in a set membership test *)

\* A bson ObjectId (the value of Document.id) and a dereferenced MicroUnit
\* document. QuerySet.distinct on a ReferenceField dereferences what it
\* returns, so its result holds documents, not ids.
OidValue(u) == [type |-> "ObjectId", id |-> u]
DocValue(u) == [type |-> "MicroUnit", id |-> u]

\* Python ==. ObjectId.__eq__ answers only for another ObjectId and
\* Document.__eq__ only for a document of its class (or a DBRef): an ObjectId
\* and a document are never equal, whatever their ids.
PyEq(a, b) == a.type = b.type /\ a.id = b.id

\* Python `x in s` for a set s. An ObjectId and the document it names have
\* the same hash, so equality decides.
PyIn(x, s) == \E y \in s : PyEq(x, y)

\* Membership by id alone.
IdInNotedById(u, noted) == \E d \in noted : d.id = u

\* `mu.id in noted_units` in subtopics_by_subject
IdInNoted(u, noted) == PyIn(OidValue(u), noted)

\* The same test made with the id of the document.
DocInNotedByOid(u, noted) == PyIn(OidValue(u), noted)

\* `u in notes_map` in micro_units_by_subtopic
DocInNoted(u, noted) == PyIn(DocValue(u), noted)

\* MicroUnitNote.objects(micro_unit__in=us).distinct("micro_unit"): the
\* distinct references, then one query that dereferences them (none when
\* there is nothing to dereference).
NotedAmong(us) == {n.micro_unit : n \in {m \in notes : m.micro_unit \in us}}
Dereferenced(raw) == {DocValue(u) : u \in raw \cap UnitIds}
DistinctRoundTrips(raw) == 1 + (IF raw = {} THEN 0 ELSE 1)

---------------------------------------------------------------------------
(* GET /subtopics/<subject> *)

\* SubTopic.objects(subject=subject): no gate on v4_finalized.
SubTopicsOf(subject) ==
    Ascending({t \in SubTopicIds : subtopics[t].subject = subject})

\* The querysets of lines 155 and 157 are lazy. Compiling the filter of the
\* notes query iterates micro_units, whose own filter iterates subtopics:
\* the subtopics are fetched first, then the micro-units, then the notes.
\* Each queryset caches its documents, so the later loops read the cache.
subtopics_fetch(subject) ==
    /\ req.pc = "idle"
    /\ req' = [Idle EXCEPT !.pc = "st_units", !.subject = subject,
                           !.subs = SubTopicsOf(subject), !.rt = 1]
    /\ resp' = NoResp
    /\ UNCHANGED store

\* MicroUnit.objects(subtopic__in=subtopics): no gate on v6_finalized.
subtopics_units ==
    /\ req.pc = "st_units"
    /\ req' = [req EXCEPT
                 !.pc = "st_notes",
                 !.units = Ascending({u \in UnitIds :
                                        units[u].subtopic \in Range(req.subs)}),
                 !.rt = @ + 1]
    /\ UNCHANGED <<store, resp>>

subtopics_notes ==
    /\ req.pc = "st_notes"
    /\ LET raw == NotedAmong(Range(req.units))
       IN  req' = [req EXCEPT !.pc = "st_build", !.noted = Dereferenced(raw),
                              !.rt = @ + DistinctRoundTrips(raw)]
    /\ UNCHANGED <<store, resp>>

\* The loop of lines 168-172 and the response. mu.subtopic is a lazy
\* reference: reading it inside the `if` costs one round-trip per micro-unit
\* that passes the membership test.
subtopics_respond ==
    /\ req.pc = "st_build"
    /\ LET hits == {u \in Range(req.units) : IdInNoted(u, req.noted)}
           subtopic_has_notes == {units[u].subtopic : u \in hits}
           r == [req EXCEPT !.rt = @ + Cardinality(hits)]
       IN  resp' = Ok("subtopics", r,
                      [k \in 1 .. Len(req.subs) |->
                          [name |-> subtopics[req.subs[k]].name,
                           has_notes |-> req.subs[k] \in subtopic_has_notes]])
    /\ req' = Idle
    /\ UNCHANGED store

---------------------------------------------------------------------------
(* GET /micro-units/<subject>/<subtopic_name> *)

\* SubTopic.objects.get(name=..., subject=..., v4_finalized=True)
FinalizedSubTopic(subject, name) ==
    {t \in SubTopicIds : /\ subtopics[t].name = name
                         /\ subtopics[t].subject = subject
                         /\ subtopics[t].v4_finalized}

micro_units_get(subject, name) ==
    /\ req.pc = "idle"
    /\ LET match == FinalizedSubTopic(subject, name)
           r == [Idle EXCEPT !.subject = subject, !.name = name, !.rt = 1]
       IN  IF match = {}
           THEN /\ resp' = Failed("micro_units", r, "DoesNotExist")
                /\ req' = Idle
           ELSE IF Cardinality(match) > 1
           THEN /\ resp' = Failed("micro_units", r, "MultipleObjectsReturned")
                /\ req' = Idle
           ELSE /\ resp' = NoResp
                /\ req' = [r EXCEPT !.pc = "mu_units", !.subs = Ascending(match)]
    /\ UNCHANGED store

\* Every micro-unit of the subtopic, whatever its flag.
AllUnitsOf(t) == {u \in UnitIds : units[u].subtopic = t}

\* MicroUnit.objects(subtopic=subtopic, v6_finalized=True)
FinalizedUnitsOf(t) ==
    {u \in UnitIds : units[u].subtopic = t /\ units[u].v6_finalized}

Arrangements(S) ==
    {p \in [1 .. Cardinality(S) -> S] : \A x \in S : \E i \in DOMAIN p : p[i] = x}

\* .order_by("order"): a sort on the one key `order`. MongoDB returns
\* documents that tie on the sort key in any order; the query names no
\* second key.
OrderBy(S) ==
    {p \in Arrangements(S) :
        \A i, j \in DOMAIN p : i < j => units[p[i]].order <= units[p[j]].order}

micro_units_fetch ==
    /\ req.pc = "mu_units"
    /\ \E p \in OrderBy(FinalizedUnitsOf(req.subs[1])) :
          req' = [req EXCEPT !.pc = "mu_notes", !.units = p, !.rt = @ + 1]
    /\ UNCHANGED <<store, resp>>

micro_units_notes ==
    /\ req.pc = "mu_notes"
    /\ LET raw == NotedAmong(Range(req.units))
       IN  req' = [req EXCEPT !.pc = "mu_build", !.noted = Dereferenced(raw),
                              !.rt = @ + DistinctRoundTrips(raw)]
    /\ UNCHANGED <<store, resp>>

micro_units_respond ==
    /\ req.pc = "mu_build"
    /\ resp' = Ok("micro_units", req,
                  [k \in 1 .. Len(req.units) |->
                      LET u == req.units[k]
                      IN  [id |-> IdStr(u), name |-> units[u].name,
                           order |-> units[u].order,
                           has_notes |-> DocInNoted(u, req.noted)]])
    /\ req' = Idle
    /\ UNCHANGED store

---------------------------------------------------------------------------
(* GET /notes/<micro_unit_id> and GET /mcqs/<micro_unit_id> *)

\* MicroUnit.objects.get(id=ObjectId(micro_unit_id))
notes_get_unit(id) ==
    /\ req.pc = "idle"
    /\ LET r == [Idle EXCEPT !.id = id]
       IN  IF ~IsObjectId(id)
           THEN /\ resp' = Failed("notes", r, "InvalidId")
                /\ req' = Idle
           ELSE IF ObjectId(id) \notin UnitIds
           THEN /\ resp' = Failed("notes", [r EXCEPT !.rt = 1], "DoesNotExist")
                /\ req' = Idle
           ELSE /\ resp' = NoResp
                /\ req' = [r EXCEPT !.pc = "note_get", !.units = <<ObjectId(id)>>,
                                    !.rt = 1]
    /\ UNCHANGED store

\* MicroUnitNote.objects.get(micro_unit=micro_unit)
notes_get_note ==
    /\ req.pc = "note_get"
    /\ LET match == {n \in notes : n.micro_unit = req.units[1]}
           r == [req EXCEPT !.rt = @ + 1]
       IN  IF match = {}
           THEN resp' = Failed("notes", r, "DoesNotExist")
           ELSE IF Cardinality(match) > 1
           THEN resp' = Failed("notes", r, "MultipleObjectsReturned")
           ELSE LET note == CHOOSE n \in match : TRUE
                IN  resp' = Ok("notes", r,
                               <<[micro_unit_id |-> req.id, content |-> note.content]>>)
    /\ req' = Idle
    /\ UNCHANGED store

\* MicroUnitMCQ.objects.get(micro_unit=micro_unit_id): the string is turned
\* into an ObjectId when the filter is compiled (ValidationError if it is
\* none); mcq_count and mcqs are returned as stored.
mcqs_by_micro_unit(id) ==
    /\ req.pc = "idle"
    /\ LET r == [Idle EXCEPT !.id = id]
       IN  IF ~IsObjectId(id)
           THEN resp' = Failed("mcqs", r, "ValidationError")
           ELSE LET match == {q \in mcqs : q.micro_unit = ObjectId(id)}
                    r1 == [r EXCEPT !.rt = 1]
                IN  IF match = {}
                    THEN resp' = Failed("mcqs", r1, "DoesNotExist")
                    ELSE IF Cardinality(match) > 1
                    THEN resp' = Failed("mcqs", r1, "MultipleObjectsReturned")
                    ELSE LET mcq == CHOOSE q \in match : TRUE
                         IN  resp' = Ok("mcqs", r1,
                                        <<[mcq_count |-> mcq.mcq_count,
                                           mcqs |-> mcq.mcqs]>>)
    /\ UNCHANGED <<store, req>>

---------------------------------------------------------------------------
(* The ingestion pipeline flips stage flags *)

FlipSyllabusV4(i) ==
    /\ syllabus' = [syllabus EXCEPT ![i].v4 = ~@]
    /\ UNCHANGED <<subtopics, units, notes, mcqs, req, resp>>

FlipSubTopicFinalized(t) ==
    /\ subtopics' = [subtopics EXCEPT ![t].v4_finalized = ~@]
    /\ UNCHANGED <<syllabus, units, notes, mcqs, req, resp>>

FlipUnitFinalized(u) ==
    /\ units' = [units EXCEPT ![u].v6_finalized = ~@]
    /\ UNCHANGED <<syllabus, subtopics, notes, mcqs, req, resp>>

---------------------------------------------------------------------------
(* Specifications *)

DefaultSubTopics ==
    [t \in SubTopicIds |->
        [name |-> IF t = 1 THEN "Ancient India" ELSE "Medieval India",
         subject |-> "History", v4_finalized |-> FALSE]]

DefaultUnits ==
    [u \in UnitIds |->
        [name |-> UnitNames[u], subtopic |-> 1, order |-> 0, v6_finalized |-> FALSE]]

\* The catalogue routes over every content of the syllabus collection.
InitCatalog ==
    /\ syllabus \in [SylIds -> SyllabusDoc]
    /\ \A i \in SylIds : syllabus[i].paper = i
    /\ subtopics = DefaultSubTopics
    /\ units = DefaultUnits
    /\ notes = {}
    /\ mcqs = {}
    /\ req = Idle
    /\ resp = NoResp

NextCatalog ==
    \/ list_subjects
    \/ \E subject \in Subjects : syllabus_by_subject(subject)

SpecCatalog == InitCatalog /\ [][NextCatalog]_vars

DefaultSyllabus ==
    [i \in SylIds |->
        [subject |-> IF i = 1 THEN "Polity" ELSE "History", paper |-> i,
         v4 |-> FALSE]]

\* The hierarchy routes over every content of the subtopics, micro_units and
\* micro_unit_notes collections. The store does not change while the
\* requests run.
InitHierarchy ==
    /\ syllabus = DefaultSyllabus
    /\ subtopics \in [SubTopicIds -> SubTopicDoc]
    /\ subtopics[1].subject = "History"
    /\ \A t \in SubTopicIds : subtopics[t].name = DefaultSubTopics[t].name
    /\ SubTopicUnique(subtopics)
    /\ units \in [UnitIds -> MicroUnitDoc]
    /\ \A u \in UnitIds : units[u].name = UnitNames[u]
    /\ notes \in SUBSET MicroUnitNoteDoc
    /\ RefUnique(notes)
    /\ mcqs = {}
    /\ req = Idle
    /\ resp = NoResp

NextHierarchy ==
    \/ \E subject \in Subjects : subtopics_fetch(subject)
    \/ subtopics_units
    \/ subtopics_notes
    \/ subtopics_respond
    \/ \E subject \in Subjects, name \in Names : micro_units_get(subject, name)
    \/ micro_units_fetch
    \/ micro_units_notes
    \/ micro_units_respond

SpecHierarchy == InitHierarchy /\ [][NextHierarchy]_vars

\* The gated routes while the pipeline flips flags between any two steps.
\* Every flag starts at its default, False.
InitGate ==
    /\ syllabus = DefaultSyllabus
    /\ subtopics = DefaultSubTopics
    /\ units \in [UnitIds -> MicroUnitDoc]
    /\ \A u \in UnitIds : /\ units[u].name = UnitNames[u]
                          /\ units[u].order = 0
                          /\ ~units[u].v6_finalized
    /\ notes = {}
    /\ mcqs = {}
    /\ req = Idle
    /\ resp = NoResp

NextGate ==
    \/ \E i \in SylIds : FlipSyllabusV4(i)
    \/ \E t \in SubTopicIds : FlipSubTopicFinalized(t)
    \/ \E u \in UnitIds : FlipUnitFinalized(u)
    \/ list_subjects
    \/ \E subject \in Subjects : syllabus_by_subject(subject)
    \/ \E subject \in Subjects, name \in Names : micro_units_get(subject, name)
    \/ micro_units_fetch
    \/ micro_units_notes
    \/ micro_units_respond

SpecGate == InitGate /\ [][NextGate]_vars

\* The two fetch routes over every content of the notes and MCQ collections.
InitFetch ==
    /\ syllabus = DefaultSyllabus
    /\ subtopics = DefaultSubTopics
    /\ units = DefaultUnits
    /\ notes \in SUBSET MicroUnitNoteDoc
    /\ RefUnique(notes)
    /\ mcqs \in SUBSET MicroUnitMCQDoc
    /\ RefUnique(mcqs)
    /\ req = Idle
    /\ resp = NoResp

NextFetch ==
    \/ \E id \in IdParams : notes_get_unit(id)
    \/ notes_get_note
    \/ \E id \in IdParams : mcqs_by_micro_unit(id)

SpecFetch == InitFetch /\ [][NextFetch]_vars

---------------------------------------------------------------------------
(* Properties *)

HasNote(u) == \E n \in notes : n.micro_unit = u

\* C1: list subjects contains a subject S exactly when some Syllabus document
\* has subject = S and v4 = true, and it contains no subject twice.
C1_ListSubjects ==
    resp.op = "subjects" =>
        /\ resp.status = "OK"
        /\ Range(resp.body) \subseteq Subjects
        /\ \A S \in Subjects :
              S \in Range(resp.body) <=>
                  \E i \in SylIds : syllabus[i].subject = S /\ syllabus[i].v4
        /\ NoDuplicates(resp.body)

\* Two published documents share a subject and an unpublished document has a
\* subject that is not listed.
C1_Witness ==
    /\ resp.op = "subjects"
    /\ \E i, j \in SylIds : /\ i # j
                            /\ syllabus[i].v4 /\ syllabus[j].v4
                            /\ syllabus[i].subject = syllabus[j].subject
    /\ \E k \in SylIds : /\ ~syllabus[k].v4
                         /\ syllabus[k].subject \notin Range(resp.body)

\* C2: list subtopics reports has_notes = true for a SubTopic exactly when a
\* MicroUnit that references it is referenced by a MicroUnitNote.
C2_SubtopicHasNotes ==
    resp.op = "subtopics" =>
        \A k \in 1 .. Len(resp.body) : \A t \in SubTopicIds :
            (subtopics[t].name = resp.body[k].name
                /\ subtopics[t].subject = resp.subject) =>
            (resp.body[k].has_notes <=>
                \E u \in UnitIds : units[u].subtopic = t /\ HasNote(u))

\* C3: when a finalized SubTopic T has the given (name, subject), list
\* micro-units succeeds with exactly one entry per MicroUnit that references
\* T and is finalized, and an entry's has_notes is true exactly when a
\* MicroUnitNote references its MicroUnit.
C3_MicroUnitsListing ==
    \A t \in SubTopicIds :
        (/\ resp.op = "micro_units"
         /\ subtopics[t].name = resp.name
         /\ subtopics[t].subject = resp.subject
         /\ subtopics[t].v4_finalized) =>
        LET expected == {u \in UnitIds :
                            units[u].subtopic = t /\ units[u].v6_finalized}
        IN  /\ resp.status = "OK"
            /\ Len(resp.body) = Cardinality(expected)
            /\ \A u \in expected : \E k \in 1 .. Len(resp.body) :
                  resp.body[k] = [id |-> IdStr(u), name |-> units[u].name,
                                  order |-> units[u].order,
                                  has_notes |-> HasNote(u)]

\* A listing with a noted entry, while an unfinalized MicroUnit of the same
\* SubTopic is left out.
C3_Witness ==
    /\ resp.op = "micro_units"
    /\ resp.status = "OK"
    /\ \E k \in 1 .. Len(resp.body) : resp.body[k].has_notes
    /\ \E t \in SubTopicIds, u \in UnitIds :
          /\ subtopics[t].name = resp.name
          /\ subtopics[t].subject = resp.subject
          /\ units[u].subtopic = t
          /\ ~units[u].v6_finalized

\* C4: the micro-unit listing is sorted by order ascending, and entries with
\* equal order keep one fixed relative order, that of storage (ascending id).
C4_StableOrder ==
    (resp.op = "micro_units" /\ resp.status = "OK") =>
        \A i, j \in 1 .. Len(resp.body) :
            i < j =>
                \/ resp.body[i].order < resp.body[j].order
                \/ /\ resp.body[i].order = resp.body[j].order
                   /\ ObjectId(resp.body[i].id) < ObjectId(resp.body[j].id)

\* C5: list micro-units answers NotFound when no finalized SubTopic has the
\* given (name, subject).
C5_NotFound ==
    (/\ resp.op = "micro_units"
     /\ ~\E t \in SubTopicIds : /\ subtopics[t].name = resp.name
                                /\ subtopics[t].subject = resp.subject
                                /\ subtopics[t].v4_finalized) =>
        resp.status = "NotFound"

\* C6: fetch note for a well-formed id whose MicroUnit is missing or has no
\* note, and fetch mcqs for a well-formed id with no MicroUnitMCQ, answer
\* NotFound.
C6_MissingIsNotFound ==
    /\ (/\ resp.op = "notes"
        /\ IsObjectId(resp.id)
        /\ (ObjectId(resp.id) \notin UnitIds \/ ~HasNote(ObjectId(resp.id)))) =>
           resp.status = "NotFound"
    /\ (/\ resp.op = "mcqs"
        /\ IsObjectId(resp.id)
        /\ ~\E q \in mcqs : q.micro_unit = ObjectId(resp.id)) =>
           resp.status = "NotFound"

\* C7: fetch note and fetch mcqs answer a malformed id with a client error,
\* never with an internal fault.
C7_MalformedIsClientError ==
    (resp.op \in {"notes", "mcqs"} /\ ~IsObjectId(resp.id)) =>
        resp.status \in {"BadRequest", "NotFound"}

\* C8: a successful fetch mcqs response reports an mcq_count equal to the
\* length of the mcqs it reports.
C8_CountMatchesLength ==
    (resp.op = "mcqs" /\ resp.status = "OK") =>
        resp.body[1].mcq_count = Len(resp.body[1].mcqs)

\* C9: the gate is evaluated against the store as it is when each query
\* runs: list subjects and list syllabus answer from the documents whose v4
\* is true in the store at that step, the SubTopic resolved by list
\* micro-units is finalized at that step, the MicroUnits it fetches are
\* exactly those finalized at the step of the fetch, and its response lists
\* the MicroUnits of its own fetch.
C9_GateAtQueryTime ==
    [][/\ (/\ req.pc = "idle" /\ req'.pc = "idle"
           /\ UNCHANGED store /\ resp'.op = "subjects") =>
             Range(resp'.body) =
                 {syllabus'[i].subject : i \in {j \in SylIds : syllabus'[j].v4}}
       /\ (/\ req.pc = "idle" /\ req'.pc = "idle"
           /\ UNCHANGED store /\ resp'.op = "syllabus") =>
             {resp'.body[k].paper : k \in 1 .. Len(resp'.body)} =
                 {syllabus'[i].paper :
                     i \in {j \in SylIds : /\ syllabus'[j].v4
                                           /\ syllabus'[j].subject = resp'.subject}}
       /\ (req.pc = "idle" /\ req'.pc = "mu_units") =>
             subtopics'[req'.subs[1]].v4_finalized
       /\ (req.pc = "mu_units" /\ req'.pc = "mu_notes") =>
             Range(req'.units) =
                 {u \in UnitIds : /\ units'[u].subtopic = req.subs[1]
                                  /\ units'[u].v6_finalized}
       /\ (req.pc = "mu_build" /\ req'.pc = "idle") =>
             {resp'.body[k].id : k \in 1 .. Len(resp'.body)} =
                 {IdStr(u) : u \in Range(req.units)}
      ]_vars

\* A flip fell between the fetch and the response: a fetched MicroUnit is no
\* longer finalized, and another one was finalized too late to be fetched.
C9_Witness ==
    /\ req.pc = "mu_build"
    /\ \E u \in Range(req.units) : ~units[u].v6_finalized
    /\ \E u \in UnitIds \ Range(req.units) :
          units[u].subtopic = req.subs[1] /\ units[u].v6_finalized

\* C10: one list subtopics or list micro-units request makes at most four
\* store round-trips (the parent query, the MicroUnit query, the distinct
\* query over the notes and the query that dereferences its result),
\* whatever the number of SubTopics, MicroUnits and Notes.
C10_ConstantRoundTrips ==
    resp.op \in {"subtopics", "micro_units"} => resp.rt <= 4

\* Every MicroUnit has a note and belongs to a listed SubTopic.
C10_Witness ==
    /\ resp.op = "subtopics"
    /\ resp.rt = 4
    /\ Len(resp.body) = 2
    /\ \A u \in UnitIds : HasNote(u) /\ subtopics[units[u].subtopic].subject = resp.subject

====
